---- MODULE Spec2Model ----
(***************************************************************************)
(* Sample API of k8s-observable-rollouts: the request-metrics middleware,  *)
(* the metrics registry, the health probes and the demo/info handlers.     *)
(*                                                                         *)
(* One request is one task.  RequestMetricsMiddleware.dispatch runs in     *)
(* three pieces separated by its only suspension point, the                *)
(* `await call_next(request)` of middleware.py line 27:                    *)
(*   Enter     lines 16-25  (gauge inc, route-template lookup)             *)
(*   <handler> the route handler reached through call_next                 *)
(*   Complete  lines 29-43  (sizes, track_request, gauge dec)              *)
(* Tasks of different requests interleave at suspension points only, so    *)
(* each piece is one atomic action.                                        *)
(***************************************************************************)
EXTENDS Integers, Sequences, FiniteSets, Bags, TLC

(***************************************************************************)
(* Bounds of the model.                                                    *)
(***************************************************************************)
MaxReq == 2

MaxTime == 2

Reqs == 1..MaxReq

(***************************************************************************)
(* Status codes set by the handlers and the framework.                     *)
(***************************************************************************)
HTTP_200_OK == 200
HTTP_404_NOT_FOUND == 404
HTTP_422_UNPROCESSABLE == 422
HTTP_500_INTERNAL_SERVER_ERROR == 500
HTTP_503_SERVICE_UNAVAILABLE == 503

(***************************************************************************)
(* Python's str(int) for non-negative integers, as a sequence of decimal   *)
(* digit characters: prometheus_client turns every label value into a      *)
(* string, and Starlette writes content-length as str(len(body)).          *)
(***************************************************************************)
DigitChars == <<"0", "1", "2", "3", "4", "5", "6", "7", "8", "9">>

RECURSIVE PyStr(_)
PyStr(n) ==
    IF n < 10 THEN <<DigitChars[n + 1]>>
    ELSE PyStr(n \div 10) \o <<DigitChars[(n % 10) + 1]>>

(***************************************************************************)
(* Python's int(str): an optional sign followed by one or more decimal     *)
(* digits gives the number; anything else raises ValueError.               *)
(***************************************************************************)
IsDigit(c) == \E i \in 1..10 : DigitChars[i] = c

DigitValue(c) == (CHOOSE i \in 1..10 : DigitChars[i] = c) - 1

RECURSIVE DigitsValue(_)
DigitsValue(s) ==
    IF Len(s) = 0 THEN 0
    ELSE 10 * DigitsValue(SubSeq(s, 1, Len(s) - 1)) + DigitValue(s[Len(s)])

PyInt(s) ==
    LET signed == Len(s) > 0 /\ s[1] \in {"+", "-"}
        digits == IF signed THEN Tail(s) ELSE s
    IN  IF Len(digits) > 0 /\ \A i \in 1..Len(digits) : IsDigit(digits[i])
        THEN [ok |-> TRUE,
              value |-> IF signed /\ s[1] = "-" THEN 0 - DigitsValue(digits)
                        ELSE DigitsValue(digits)]
        ELSE [ok |-> FALSE, value |-> 0]

(***************************************************************************)
(* Headers are a mapping from header name to value (a character            *)
(* sequence).  int(headers.get("content-length", 0)) of middleware.py      *)
(* lines 30-31: an absent header gives int(0) = 0, a present one is        *)
(* parsed by int() and may raise ValueError.                               *)
(***************************************************************************)
NoHeaders == <<>>

ContentLength(v) == "content-length" :> v

HeaderInt(headers) ==
    IF "content-length" \in DOMAIN headers
    THEN PyInt(headers["content-length"])
    ELSE [ok |-> TRUE, value |-> 0]

(***************************************************************************)
(* The route table of app.main, in registration order.  A path is the      *)
(* sequence of its segments, each with its leading slash; scope["path"]    *)
(* never holds the query string.  FastAPI registers its documentation      *)
(* routes first (docs_url, redoc_url, openapi_url of main.py lines 30-32), *)
(* then the /static mount, then the routers in include order and /metrics  *)
(* last.  The routes of app.routes.root are not part of the sources.       *)
(***************************************************************************)
GetHead == {"GET", "HEAD"}

Get == {"GET"}

Route(path, methods) == [kind |-> "route", path |-> path, methods |-> methods]

Mount(path) == [kind |-> "mount", path |-> path, methods |-> {}]

routes ==
    << Route(<<"/openapi.json">>, GetHead),
       Route(<<"/docs">>, GetHead),
       Route(<<"/docs", "/oauth2-redirect">>, GetHead),
       Route(<<"/redoc">>, GetHead),
       Mount(<<"/static">>),
       Route(<<"/health", "/live">>, Get),
       Route(<<"/health", "/ready">>, Get),
       Route(<<"/health", "/startup">>, Get),
       Route(<<"/api", "/version">>, Get),
       Route(<<"/api", "/info">>, Get),
       Route(<<"/api", "/changelog">>, Get),
       Route(<<"/demo", "/slow">>, Get),
       Route(<<"/demo", "/error">>, Get),
       Route(<<"/demo", "/cpu">>, Get),
       Route(<<"/demo", "/memory">>, Get),
       Route(<<"/metrics">>, Get) >>

(***************************************************************************)
(* starlette Route.matches / Mount.matches: NONE when the path does not    *)
(* match, PARTIAL when the path matches a route but the method is not one  *)
(* of its methods, FULL otherwise.  A mount matches every path under its   *)
(* prefix, whatever the method.                                            *)
(***************************************************************************)
IsPrefix(p, path) == Len(p) <= Len(path) /\ SubSeq(path, 1, Len(p)) = p

matches(route, scope) ==
    IF route.kind = "mount"
    THEN IF IsPrefix(route.path, scope.path) THEN "FULL" ELSE "NONE"
    ELSE IF route.path # scope.path THEN "NONE"
         ELSE IF scope.method \in route.methods THEN "FULL" ELSE "PARTIAL"

(***************************************************************************)
(* middleware.py lines 20-25: the template of the first route that matches *)
(* the scope fully, or "unknown" (no leading slash: no path equals it).    *)
(***************************************************************************)
UNKNOWN == <<"unknown">>

FullMatches(scope) == {i \in 1..Len(routes) : matches(routes[i], scope) = "FULL"}

Min(S) == CHOOSE x \in S : \A y \in S : x <= y

Max(S) == CHOOSE x \in S : \A y \in S : x >= y

FullMatchesIn(app_routes, scope) ==
    {i \in 1..Len(app_routes) : matches(app_routes[i], scope) = "FULL"}

endpoint_of_last(app_routes, scope) ==
    IF FullMatchesIn(app_routes, scope) = {} THEN UNKNOWN
    ELSE app_routes[Max(FullMatchesIn(app_routes, scope))].path

(***************************************************************************)
(* The loop of lines 21-25 over a route table: it stops at the first full  *)
(* match (break, line 25).                                                 *)
(***************************************************************************)
endpoint_of(app_routes, scope) ==
    IF FullMatchesIn(app_routes, scope) = {} THEN UNKNOWN
    ELSE app_routes[Min(FullMatchesIn(app_routes, scope))].path

ResolveEndpoint_raw(scope) == scope.path

ResolveEndpoint(scope) == endpoint_of(routes, scope)

(***************************************************************************)
(* The router hands the request to the first route that matches fully;     *)
(* the handler actions below are guarded by it.                            *)
(***************************************************************************)
RoutedTo(scope, path) ==
    /\ FullMatches(scope) # {}
    /\ routes[Min(FullMatches(scope))].path = path

(***************************************************************************)
(* State.                                                                  *)
(*   The MetricsRegistry singleton (metrics.py lines 7-56).  A labelled    *)
(*   counter is the bag of the label combinations it was incremented with: *)
(*   a series exists from its first increment and its value is the number  *)
(*   of copies.  A histogram is the bag of the label combinations observed *)
(*   (its _count); the observed values are not kept.                       *)
(*   The machine: memory and root-volume utilisation as psutil reports     *)
(*   them, the Settings object of config.py, and the clock that            *)
(*   time.time() reads, in whole seconds.                                  *)
(*   Per request: the position of its task, its scope, its query string    *)
(*   and headers, dispatch's locals `start_time` and `endpoint`, the       *)
(*   handler's locals and the response call_next returned.                 *)
(***************************************************************************)
VARIABLES active_requests, request_count, request_duration, request_size,
          response_size, error_count, business_operations,
          memory_percent, disk_percent, settings, now,
          pc, scope, request, start_time, endpoint, locals, response

registry == <<active_requests, request_count, request_duration, request_size,
              response_size, error_count, business_operations>>

machine == <<memory_percent, disk_percent, settings, now>>

tasks == <<pc, scope, request, start_time, endpoint, locals, response>>

vars == <<registry, machine, tasks>>

NoScope == [method |-> "", path |-> <<>>]

NoRequest == [query |-> <<>>, headers |-> NoHeaders]

NoLocals == <<>>

NoResponse == [status_code |-> 0, headers |-> NoHeaders, body |-> <<>>]

(***************************************************************************)
(* Positions of a request's task.                                          *)
(*   new        not yet received                                           *)
(*   awaiting   dispatch is suspended in call_next, the handler has not    *)
(*              run yet                                                    *)
(*   sleeping   the handler is suspended in asyncio.sleep (/demo/slow)     *)
(*   responded  the handler produced a response, dispatch has not resumed  *)
(*   done       dispatch returned the response                             *)
(*   raised     an exception of the handler left dispatch at line 27       *)
(*   failed     an exception left dispatch after line 27                   *)
(*   cancelled  the task was cancelled while suspended                     *)
(***************************************************************************)
InFlight(r) == pc[r] \in {"awaiting", "sleeping", "responded"}

Finished(r) == pc[r] \in {"done", "raised", "failed", "cancelled"}

(***************************************************************************)
(* prometheus_client: labels(...).inc() adds one to the series of that     *)
(* label combination, creating it on first use; labels(...).observe(v)     *)
(* adds one observation to the histogram series.  Label values are turned  *)
(* into strings.                                                           *)
(***************************************************************************)
inc(metric, labels) == metric (+) SetToBag({labels})

observe(metric, labels) == metric (+) SetToBag({labels})

value(metric, labels) == CopiesIn(labels, metric)

RequestLabels(method, ep, status) ==
    [method |-> method, endpoint |-> ep, status |-> PyStr(status)]

HistogramLabels(method, ep) == [method |-> method, endpoint |-> ep]

track_request_without_sizes(method, ep, status) ==
    /\ request_count' = inc(request_count, RequestLabels(method, ep, status))
    /\ request_duration' = observe(request_duration, HistogramLabels(method, ep))
    /\ UNCHANGED <<request_size, response_size>>

(***************************************************************************)
(* MetricsRegistry.track_request (metrics.py lines 67-73).                 *)
(***************************************************************************)
track_request(method, ep, status) ==
    /\ request_count' = inc(request_count, RequestLabels(method, ep, status))
    /\ request_duration' = observe(request_duration, HistogramLabels(method, ep))
    /\ request_size' = observe(request_size, HistogramLabels(method, ep))
    /\ response_size' = observe(response_size, HistogramLabels(method, ep))

track_error_twice(error_type) ==
    error_count' = inc(inc(error_count, [error_type |-> error_type]),
                       [error_type |-> error_type])

(***************************************************************************)
(* MetricsRegistry.track_error (metrics.py lines 75-77).                   *)
(***************************************************************************)
track_error(error_type) ==
    error_count' = inc(error_count, [error_type |-> error_type])

(***************************************************************************)
(* MetricsRegistry.get_metrics (metrics.py lines 79-81): the exposition of *)
(* every series of the registry with its current value.                    *)
(***************************************************************************)
get_metrics ==
    [http_requests_active |-> active_requests,
     http_requests_total |-> request_count,
     http_request_duration_seconds |-> request_duration,
     http_request_size_bytes |-> request_size,
     http_response_size_bytes |-> response_size,
     app_errors_total |-> error_count,
     business_operations_total |-> business_operations]

(***************************************************************************)
(* Responses.  Starlette writes content-length as str(len(body)); the      *)
(* number of top-level members of the body stands for its length.          *)
(***************************************************************************)
BodyLength(body) == Cardinality(DOMAIN body)

Response(status, body) ==
    [status_code |-> status,
     headers |-> ContentLength(PyStr(BodyLength(body))),
     body |-> body]

(***************************************************************************)
(* What leaves the process once the task has ended: the status line only.  *)
(***************************************************************************)
Sent(status) == [status_code |-> status, headers |-> NoHeaders, body |-> <<>>]

(***************************************************************************)
(* models/health.py: HealthStatus and the HealthCheck / ReadinessCheck /   *)
(* ComponentHealth models as FastAPI serialises them (response_model).     *)
(***************************************************************************)
HealthStatusOK == "ok"

HealthStatusERROR == "error"

ComponentHealth(name, status, details) ==
    [name |-> name, status |-> status, details |-> details]

HealthCheck(status) == [status |-> status, components |-> <<>>]

ReadinessCheck(status, components) ==
    [status |-> status, components |-> components]

(***************************************************************************)
(* routes/health.py lines 66-101: the three checks, each read from the     *)
(* machine at the time of the call.  Utilisation is in whole percent.      *)
(***************************************************************************)
check_memory_inclusive ==
    [healthy |-> memory_percent <= 90,
     message |-> <<"Memory usage: ">> \o PyStr(memory_percent) \o <<"%">>]

check_memory ==
    [healthy |-> memory_percent < 90,
     message |-> <<"Memory usage: ">> \o PyStr(memory_percent) \o <<"%">>]

check_disk ==
    [healthy |-> disk_percent < 90,
     message |-> <<"Disk usage: ">> \o PyStr(disk_percent) \o <<"%">>]

required_vars_without_version == <<"APP_NAME", "APP_ENV">>

required_vars == <<"APP_NAME", "APP_ENV", "VERSION">>

check_configuration ==
    LET unset(var) == settings[var] = ""
        missing == SelectSeq(required_vars, unset)
    IN  [healthy |-> Len(missing) = 0,
         message |-> IF Len(missing) = 0 THEN <<"Configuration OK">>
                     ELSE <<"Missing: ">> \o missing]

(***************************************************************************)
(* readiness (routes/health.py lines 22-53).  `checks` keeps the order of  *)
(* the dict literal.  The status code stays the default 200 unless a check *)
(* is unhealthy.                                                           *)
(***************************************************************************)
checks ==
    << [name |-> "memory", check |-> check_memory],
       [name |-> "disk", check |-> check_disk],
       [name |-> "config", check |-> check_configuration] >>

all_healthy(cs) == \A i \in 1..Len(cs) : cs[i].check.healthy

readiness_status_code_any(cs) ==
    IF \A i \in 1..Len(cs) : ~cs[i].check.healthy
    THEN HTTP_503_SERVICE_UNAVAILABLE ELSE HTTP_200_OK

readiness_status_code(cs) ==
    IF ~all_healthy(cs) THEN HTTP_503_SERVICE_UNAVAILABLE ELSE HTTP_200_OK

component_healths_first_details(cs) ==
    [i \in 1..Len(cs) |->
        ComponentHealth(cs[i].name,
                        IF cs[i].check.healthy THEN HealthStatusOK
                        ELSE HealthStatusERROR,
                        cs[1].check.message)]

component_healths(cs) ==
    [i \in 1..Len(cs) |->
        ComponentHealth(cs[i].name,
                        IF cs[i].check.healthy THEN HealthStatusOK
                        ELSE HealthStatusERROR,
                        cs[i].check.message)]

readiness ==
    Response(readiness_status_code(checks),
             ReadinessCheck(IF all_healthy(checks) THEN HealthStatusOK
                            ELSE HealthStatusERROR,
                            component_healths(checks)))

(***************************************************************************)
(* liveness and startup (routes/health.py lines 13-19 and 56-63).          *)
(***************************************************************************)
liveness_evaluates ==
    Response(readiness_status_code(checks),
             HealthCheck(IF all_healthy(checks) THEN HealthStatusOK
                         ELSE HealthStatusERROR))

liveness == Response(HTTP_200_OK, HealthCheck(HealthStatusOK))

startup == Response(HTTP_200_OK, HealthCheck(HealthStatusOK))

(***************************************************************************)
(* An exception or a cancellation leaving dispatch: the function has no    *)
(* try/finally and no except clause (middleware.py lines 13-43), so        *)
(* nothing of lines 29-41 runs and the registry stays as it is.            *)
(***************************************************************************)
unwind_decrement_twice ==
    /\ active_requests' = active_requests - 2
    /\ UNCHANGED <<request_count, request_duration, request_size,
                   response_size, error_count, business_operations>>

unwind_with_cleanup ==
    /\ active_requests' = active_requests - 1
    /\ UNCHANGED <<request_count, request_duration, request_size,
                   response_size, error_count, business_operations>>

unwind == UNCHANGED registry

(***************************************************************************)
(* How a task ends.  Returned: dispatch returned the handler's response.   *)
(* Errored: an exception left dispatch; ServerErrorMiddleware, outside     *)
(* the middleware, answers 500.  Cancelled: no answer.                     *)
(***************************************************************************)
End(r, position, sent) ==
    /\ pc' = [pc EXCEPT ![r] = position]
    /\ response' = [response EXCEPT ![r] = sent]
    /\ request' = [request EXCEPT ![r] = NoRequest]
    /\ locals' = [locals EXCEPT ![r] = NoLocals]
    /\ start_time' = [start_time EXCEPT ![r] = 0]
    /\ UNCHANGED <<scope, endpoint>>

Respond(r, resp) ==
    /\ pc' = [pc EXCEPT ![r] = "responded"]
    /\ response' = [response EXCEPT ![r] = resp]
    /\ locals' = [locals EXCEPT ![r] = NoLocals]
    /\ UNCHANGED <<scope, request, start_time, endpoint>>

(***************************************************************************)
(* dispatch, lines 16-27: start time, gauge inc, template lookup, then the *)
(* task suspends in call_next.  Requests are numbered in order of arrival. *)
(***************************************************************************)
Enter(r, inp) ==
    /\ pc[r] = "new"
    /\ \A q \in Reqs : q < r => pc[q] # "new"
    /\ start_time' = [start_time EXCEPT ![r] = now]
    /\ active_requests' = active_requests + 1
    /\ endpoint' = [endpoint EXCEPT ![r] = ResolveEndpoint(inp.scope)]
    /\ scope' = [scope EXCEPT ![r] = inp.scope]
    /\ request' = [request EXCEPT ![r] = inp.request]
    /\ pc' = [pc EXCEPT ![r] = "awaiting"]
    /\ UNCHANGED <<request_count, request_duration, request_size,
                   response_size, error_count, business_operations>>
    /\ UNCHANGED <<machine, locals, response>>

(***************************************************************************)
(* dispatch, lines 29-43.  Either int() raises ValueError and the          *)
(* exception leaves dispatch, or the request is tracked, the gauge is      *)
(* decremented and the response returned.                                  *)
(***************************************************************************)
Complete(r) ==
    /\ pc[r] = "responded"
    /\ LET request_size_ == HeaderInt(request[r].headers)
           response_size_ == HeaderInt(response[r].headers)
       IN  IF ~request_size_.ok \/ ~response_size_.ok
           THEN /\ unwind
                /\ End(r, "failed", Sent(HTTP_500_INTERNAL_SERVER_ERROR))
           ELSE /\ track_request(scope[r].method, endpoint[r],
                                 response[r].status_code)
                /\ active_requests' = active_requests - 1
                /\ UNCHANGED <<error_count, business_operations>>
                /\ End(r, "done", Sent(response[r].status_code))
    /\ UNCHANGED machine

(***************************************************************************)
(* The task is cancelled while suspended (client abort, timeout, server    *)
(* shutdown): CancelledError is raised at the await of line 27.            *)
(***************************************************************************)
Cancel(r) ==
    /\ InFlight(r)
    /\ unwind
    /\ End(r, "cancelled", NoResponse)
    /\ UNCHANGED machine

(***************************************************************************)
(* GET /health/live, /health/ready, /health/startup.                       *)
(***************************************************************************)
Liveness(r) ==
    /\ pc[r] = "awaiting"
    /\ RoutedTo(scope[r], <<"/health", "/live">>)
    /\ Respond(r, liveness)
    /\ UNCHANGED <<registry, machine>>

Readiness(r) ==
    /\ pc[r] = "awaiting"
    /\ RoutedTo(scope[r], <<"/health", "/ready">>)
    /\ Respond(r, readiness)
    /\ UNCHANGED <<registry, machine>>

Startup(r) ==
    /\ pc[r] = "awaiting"
    /\ RoutedTo(scope[r], <<"/health", "/startup">>)
    /\ Respond(r, startup)
    /\ UNCHANGED <<registry, machine>>

(***************************************************************************)
(* GET /metrics (main.py lines 56-58).                                     *)
(***************************************************************************)
Metrics(r) ==
    /\ pc[r] = "awaiting"
    /\ RoutedTo(scope[r], <<"/metrics">>)
    /\ Respond(r, Response(HTTP_200_OK, get_metrics))
    /\ UNCHANGED <<registry, machine>>

(***************************************************************************)
(* FastAPI's validation of an optional numeric query parameter declared    *)
(* Query(None, ge=lo, le=hi): absent is None; a value that does not parse  *)
(* or lies outside [lo, hi] is rejected with 422 before the handler body   *)
(* runs.  Values are whole numbers here.                                   *)
(***************************************************************************)
Query_unbounded(query, name, lo, hi) ==
    IF name \notin DOMAIN query
    THEN [valid |-> TRUE, given |-> FALSE, value |-> 0]
    ELSE LET parsed == PyInt(query[name])
         IN  [valid |-> parsed.ok, given |-> TRUE, value |-> parsed.value]

Query(query, name, lo, hi) ==
    IF name \notin DOMAIN query
    THEN [valid |-> TRUE, given |-> FALSE, value |-> 0]
    ELSE LET parsed == PyInt(query[name])
         IN  [valid |-> parsed.ok /\ lo <= parsed.value /\ parsed.value <= hi,
              given |-> TRUE,
              value |-> parsed.value]

ValidationError == [detail |-> "validation error"]

HTTPException(status, detail) == Response(status, [detail |-> detail])

(***************************************************************************)
(* routes/demo.py line 20: the feature flag, read on every call.           *)
(***************************************************************************)
slow_endpoint_never_disabled == FALSE

slow_endpoint_disabled == ~settings.ENABLE_SLOW_ENDPOINT

(***************************************************************************)
(* routes/demo.py line 23: delay if delay is not None else the setting.    *)
(***************************************************************************)
actual_delay_or_default(delay) ==
    IF delay.given /\ delay.value # 0 THEN delay.value
    ELSE settings.SLOW_ENDPOINT_DELAY

actual_delay_of(delay) ==
    IF delay.given THEN delay.value ELSE settings.SLOW_ENDPOINT_DELAY

(***************************************************************************)
(* GET /demo/slow (routes/demo.py lines 13-36), up to its suspension in    *)
(* asyncio.sleep, and from there to its return.  asyncio.sleep(d) resumes  *)
(* the task once d seconds have passed, never before.                      *)
(***************************************************************************)
SlowStart_flag_first(r) ==
    /\ pc[r] = "awaiting"
    /\ RoutedTo(scope[r], <<"/demo", "/slow">>)
    /\ LET delay == Query(request[r].query, "delay", 0, 30)
           actual_delay == actual_delay_of(delay)
       IN  IF slow_endpoint_disabled
           THEN /\ Respond(r, HTTPException(HTTP_404_NOT_FOUND,
                                            "Slow endpoint is disabled"))
                /\ UNCHANGED registry
           ELSE IF ~delay.valid
           THEN /\ Respond(r, Response(HTTP_422_UNPROCESSABLE, ValidationError))
                /\ UNCHANGED registry
           ELSE /\ business_operations' =
                       inc(business_operations,
                           [operation |-> "slow_request", status |-> "started"])
                /\ pc' = [pc EXCEPT ![r] = "sleeping"]
                /\ locals' = [locals EXCEPT ![r] =
                                 [actual_delay |-> actual_delay,
                                  wake_at |-> now + actual_delay]]
                /\ UNCHANGED <<active_requests, request_count, request_duration,
                               request_size, response_size, error_count>>
                /\ UNCHANGED <<scope, request, start_time, endpoint, response>>
    /\ UNCHANGED machine

SlowStart_blocking(r) ==
    /\ pc[r] = "awaiting"
    /\ RoutedTo(scope[r], <<"/demo", "/slow">>)
    /\ LET delay == Query(request[r].query, "delay", 0, 30)
           actual_delay == actual_delay_of(delay)
       IN  IF ~delay.valid
           THEN /\ Respond(r, Response(HTTP_422_UNPROCESSABLE, ValidationError))
                /\ UNCHANGED <<registry, now>>
           ELSE IF slow_endpoint_disabled
           THEN /\ Respond(r, HTTPException(HTTP_404_NOT_FOUND,
                                            "Slow endpoint is disabled"))
                /\ UNCHANGED <<registry, now>>
           ELSE /\ now + actual_delay <= MaxTime
                /\ now' = now + actual_delay
                /\ business_operations' =
                       inc(inc(business_operations,
                               [operation |-> "slow_request", status |-> "started"]),
                           [operation |-> "slow_request", status |-> "completed"])
                /\ Respond(r, Response(HTTP_200_OK,
                                       [message |-> "Response after delay",
                                        delay |-> actual_delay]))
                /\ UNCHANGED <<active_requests, request_count, request_duration,
                               request_size, response_size, error_count>>
    /\ UNCHANGED <<memory_percent, disk_percent, settings>>

SlowStart(r) ==
    /\ pc[r] = "awaiting"
    /\ RoutedTo(scope[r], <<"/demo", "/slow">>)
    /\ LET delay == Query(request[r].query, "delay", 0, 30)
           actual_delay == actual_delay_of(delay)
       IN  IF ~delay.valid
           THEN /\ Respond(r, Response(HTTP_422_UNPROCESSABLE, ValidationError))
                /\ UNCHANGED registry
           ELSE IF slow_endpoint_disabled
           THEN /\ Respond(r, HTTPException(HTTP_404_NOT_FOUND,
                                            "Slow endpoint is disabled"))
                /\ UNCHANGED registry
           ELSE /\ business_operations' =
                       inc(business_operations,
                           [operation |-> "slow_request", status |-> "started"])
                /\ pc' = [pc EXCEPT ![r] = "sleeping"]
                /\ locals' = [locals EXCEPT ![r] =
                                 [actual_delay |-> actual_delay,
                                  wake_at |-> now + actual_delay]]
                /\ UNCHANGED <<active_requests, request_count, request_duration,
                               request_size, response_size, error_count>>
                /\ UNCHANGED <<scope, request, start_time, endpoint, response>>
    /\ UNCHANGED machine

SlowWake(r) ==
    /\ pc[r] = "sleeping"
    /\ now >= locals[r].wake_at
    /\ business_operations' =
           inc(business_operations,
               [operation |-> "slow_request", status |-> "completed"])
    /\ Respond(r, Response(HTTP_200_OK,
                           [message |-> "Response after delay",
                            delay |-> locals[r].actual_delay]))
    /\ UNCHANGED <<active_requests, request_count, request_duration,
                   request_size, response_size, error_count>>
    /\ UNCHANGED machine

(***************************************************************************)
(* GET /demo/error (routes/demo.py lines 39-56).  draw is                  *)
(* random.random() * 100, a number in [0, 100).  The HTTPException is      *)
(* turned into a response by the framework inside call_next.               *)
(***************************************************************************)
RandomDraws == {0, 50, 99}

simulate_error_inclusive(draw, error_rate) == draw <= error_rate

simulate_error(draw, error_rate) == draw < error_rate

ErrorEndpoint(r) ==
    /\ pc[r] = "awaiting"
    /\ RoutedTo(scope[r], <<"/demo", "/error">>)
    /\ LET rate == Query(request[r].query, "rate", 0, 100)
           error_rate == IF rate.given THEN rate.value ELSE settings.ERROR_RATE
       IN  IF ~rate.valid
           THEN /\ Respond(r, Response(HTTP_422_UNPROCESSABLE, ValidationError))
                /\ UNCHANGED registry
           ELSE \E draw \in RandomDraws :
                   IF simulate_error(draw, error_rate)
                   THEN /\ track_error("simulated_error")
                        /\ Respond(r, HTTPException(HTTP_500_INTERNAL_SERVER_ERROR,
                                                    "Simulated error"))
                        /\ UNCHANGED <<active_requests, request_count,
                                       request_duration, request_size,
                                       response_size, business_operations>>
                   ELSE /\ Respond(r, Response(HTTP_200_OK,
                                               [message |-> "Success",
                                                error_rate |-> error_rate]))
                        /\ UNCHANGED registry
    /\ UNCHANGED machine

(***************************************************************************)
(* GET /api/info (routes/info.py lines 23-42).  AppInfo (models/info.py    *)
(* lines 11-14) requires app_name and version; get_info passes name,       *)
(* version, environment, uptime, features and links, so pydantic raises a  *)
(* ValidationError, which no exception handler of the app catches: it      *)
(* leaves call_next and dispatch.                                          *)
(***************************************************************************)
AppInfoRequired == {"app_name", "version"}

get_info_keywords ==
    {"name", "version", "environment", "uptime", "features", "links"}

GetInfo(r) ==
    /\ pc[r] = "awaiting"
    /\ RoutedTo(scope[r], <<"/api", "/info">>)
    /\ IF AppInfoRequired \subseteq get_info_keywords
       THEN /\ Respond(r, Response(HTTP_200_OK,
                                   [app_name |-> settings.APP_NAME,
                                    version |-> settings.VERSION]))
            /\ UNCHANGED registry
       ELSE /\ unwind
            /\ End(r, "raised", Sent(HTTP_500_INTERNAL_SERVER_ERROR))
    /\ UNCHANGED machine

(***************************************************************************)
(* GET /demo/cpu (routes/demo.py lines 59-76): duration is                 *)
(* Query(1, ge=1, le=10).  The loop of lines 73-74 does not await: it      *)
(* holds the event loop until at least `duration` seconds have passed.     *)
(***************************************************************************)
Cpu(r) ==
    /\ pc[r] = "awaiting"
    /\ RoutedTo(scope[r], <<"/demo", "/cpu">>)
    /\ LET param == Query(request[r].query, "duration", 1, 10)
           duration == IF param.given THEN param.value ELSE 1
       IN  IF ~param.valid
           THEN /\ Respond(r, Response(HTTP_422_UNPROCESSABLE, ValidationError))
                /\ now' = now
           ELSE /\ \E end \in (now + duration)..MaxTime : now' = end
                /\ Respond(r, Response(HTTP_200_OK,
                                       [message |-> "CPU intensive operation completed",
                                        duration |-> duration]))
    /\ UNCHANGED <<registry, memory_percent, disk_percent, settings>>

(***************************************************************************)
(* GET /demo/memory (routes/demo.py lines 79-93): size_mb is               *)
(* Query(10, ge=1, le=100).  The bytearray is released on return.          *)
(***************************************************************************)
Memory(r) ==
    /\ pc[r] = "awaiting"
    /\ RoutedTo(scope[r], <<"/demo", "/memory">>)
    /\ LET param == Query(request[r].query, "size_mb", 1, 100)
           size_mb == IF param.given THEN param.value ELSE 10
       IN  IF ~param.valid
           THEN Respond(r, Response(HTTP_422_UNPROCESSABLE, ValidationError))
           ELSE Respond(r, Response(HTTP_200_OK,
                                    [message |-> "Allocated memory",
                                     size_mb |-> size_mb]))
    /\ UNCHANGED <<registry, machine>>

(***************************************************************************)
(* The /static mount (main.py lines 46-48).  The mount takes every request *)
(* under its prefix; StaticFiles answers 405 to a method other than GET    *)
(* and HEAD, 404 when there is no such file and the file otherwise.        *)
(***************************************************************************)
Static(r) ==
    /\ pc[r] = "awaiting"
    /\ RoutedTo(scope[r], <<"/static">>)
    /\ IF scope[r].method \notin GetHead
       THEN Respond(r, HTTPException(405, "Method Not Allowed"))
       ELSE \/ Respond(r, HTTPException(HTTP_404_NOT_FOUND, "Not Found"))
            \/ Respond(r, Response(HTTP_200_OK, [content |-> "file"]))
    /\ UNCHANGED <<registry, machine>>

(***************************************************************************)
(* A second passes.                                                        *)
(***************************************************************************)
Tick ==
    /\ now < MaxTime
    /\ now' = now + 1
    /\ UNCHANGED <<registry, memory_percent, disk_percent, settings, tasks>>

(***************************************************************************)
(* No route matches fully: the router answers 405 when a route matches     *)
(* the path but not the method, and 404 otherwise.                         *)
(***************************************************************************)
NoRoute(r) ==
    /\ pc[r] = "awaiting"
    /\ FullMatches(scope[r]) = {}
    /\ Respond(r, HTTPException(
                     IF \E i \in 1..Len(routes) :
                            matches(routes[i], scope[r]) = "PARTIAL"
                     THEN 405 ELSE HTTP_404_NOT_FOUND,
                     "Not Found"))
    /\ UNCHANGED <<registry, machine>>

(***************************************************************************)
(* The machine's utilisation changes between calls.                        *)
(***************************************************************************)
PercentSamples == {89, 90}

MachineChanges ==
    /\ \E m \in PercentSamples, d \in PercentSamples :
          /\ memory_percent' = m
          /\ disk_percent' = d
    /\ UNCHANGED <<registry, settings, now, tasks>>

(***************************************************************************)
(* Settings (config.py lines 5-27): the defaults, and environments that    *)
(* set a required name to the empty string.                                *)
(***************************************************************************)
DefaultSettings ==
    [APP_NAME |-> "Sample API", APP_ENV |-> "development", VERSION |-> "1.0.0",
     ENABLE_SLOW_ENDPOINT |-> TRUE, SLOW_ENDPOINT_DELAY |-> 5, ERROR_RATE |-> 0]

SettingsSamples ==
    { DefaultSettings,
      [DefaultSettings EXCEPT !.APP_ENV = ""],
      [DefaultSettings EXCEPT !.APP_NAME = "", !.VERSION = ""] }

(***************************************************************************)
(* Requests the clients send.                                              *)
(***************************************************************************)
Input(method, path, query, headers) ==
    [scope |-> [method |-> method, path |-> path],
     request |-> [query |-> query, headers |-> headers]]

HeaderSamples == {NoHeaders, ContentLength(<<"7">>), ContentLength(<<"x">>)}

PipelineInputs ==
    { Input("GET", p, <<>>, h) :
        p \in { <<"/health", "/live">>, <<"/api", "/info">>, <<"/metrics">>,
                <<"/nonexistent">> },
        h \in HeaderSamples }
    \cup
    { Input("GET", <<"/demo", "/slow">>, "delay" :> <<"0">>, h) :
        h \in HeaderSamples }
    \cup
    { Input("GET", <<"/demo", "/error">>, "rate" :> v, NoHeaders) :
        v \in { <<"0">>, <<"1", "0", "0">> } }
    \cup
    { Input("GET", <<"/demo", "/error">>, "rate" :> <<"1", "0", "0">>,
            ContentLength(<<"x">>)) }

DemoInputs ==
    { Input("GET", <<"/demo", "/slow">>, q, NoHeaders) :
        q \in { <<>>, "delay" :> <<"0">>, "delay" :> <<"1">>,
                "delay" :> <<"3", "1">>,
                "delay" :> <<"i", "n", "v", "a", "l", "i", "d">> } }
    \cup
    { Input("GET", <<"/demo", "/error">>, "rate" :> v, NoHeaders) :
        v \in { <<"1", "0", "1">> } }
    \cup
    { Input("GET", <<"/demo", "/cpu">>, q, NoHeaders) :
        q \in { <<>>, "duration" :> <<"0">> } }
    \cup
    { Input("GET", <<"/demo", "/memory">>, q, NoHeaders) :
        q \in { <<>>, "size_mb" :> <<"1", "0", "1">> } }

RoutingInputs ==
    { Input(m, p, <<>>, NoHeaders) :
        m \in {"GET", "POST"},
        p \in { <<"/health", "/live">>, <<"/static", "/app.js">>,
                <<"/nonexistent">> } }
    \cup
    { Input("HEAD", <<"/health", "/live">>, <<>>, NoHeaders) }

HealthInputs ==
    { Input("GET", p, <<>>, NoHeaders) :
        p \in { <<"/health", "/live">>, <<"/health", "/ready">>,
                <<"/health", "/startup">> } }

(***************************************************************************)
(* Initial state: a fresh registry, no request received.                   *)
(***************************************************************************)
InitRegistry ==
    /\ active_requests = 0
    /\ request_count = EmptyBag
    /\ request_duration = EmptyBag
    /\ request_size = EmptyBag
    /\ response_size = EmptyBag
    /\ error_count = EmptyBag
    /\ business_operations = EmptyBag

InitTasks ==
    /\ pc = [r \in Reqs |-> "new"]
    /\ scope = [r \in Reqs |-> NoScope]
    /\ request = [r \in Reqs |-> NoRequest]
    /\ start_time = [r \in Reqs |-> 0]
    /\ endpoint = [r \in Reqs |-> UNKNOWN]
    /\ locals = [r \in Reqs |-> NoLocals]
    /\ response = [r \in Reqs |-> NoResponse]

Init ==
    /\ InitRegistry
    /\ InitTasks
    /\ memory_percent = 50
    /\ disk_percent = 50
    /\ settings = DefaultSettings
    /\ now = 0

DemoSettings ==
    { [DefaultSettings EXCEPT !.SLOW_ENDPOINT_DELAY = 2],
      [DefaultSettings EXCEPT !.SLOW_ENDPOINT_DELAY = 2,
                              !.ENABLE_SLOW_ENDPOINT = FALSE] }

InitDemo ==
    /\ InitRegistry
    /\ InitTasks
    /\ memory_percent = 50
    /\ disk_percent = 50
    /\ settings \in DemoSettings
    /\ now = 0

InitHealth ==
    /\ InitRegistry
    /\ InitTasks
    /\ memory_percent \in PercentSamples
    /\ disk_percent \in PercentSamples
    /\ settings \in SettingsSamples
    /\ now = 0

Next ==
    \/ \E r \in Reqs, inp \in PipelineInputs : Enter(r, inp)
    \/ \E r \in Reqs : Liveness(r)
    \/ \E r \in Reqs : Metrics(r)
    \/ \E r \in Reqs : GetInfo(r)
    \/ \E r \in Reqs : SlowStart(r)
    \/ \E r \in Reqs : SlowWake(r)
    \/ \E r \in Reqs : ErrorEndpoint(r)
    \/ \E r \in Reqs : NoRoute(r)
    \/ \E r \in Reqs : Complete(r)
    \/ \E r \in Reqs : Cancel(r)

NextHealth ==
    \/ \E r \in Reqs, inp \in HealthInputs : Enter(r, inp)
    \/ \E r \in Reqs : Liveness(r)
    \/ \E r \in Reqs : Readiness(r)
    \/ \E r \in Reqs : Startup(r)
    \/ \E r \in Reqs : Complete(r)
    \/ \E r \in Reqs : Cancel(r)
    \/ MachineChanges

NextDemo ==
    \/ \E r \in Reqs, inp \in DemoInputs : Enter(r, inp)
    \/ \E r \in Reqs : SlowStart(r)
    \/ \E r \in Reqs : SlowWake(r)
    \/ \E r \in Reqs : ErrorEndpoint(r)
    \/ \E r \in Reqs : Cpu(r)
    \/ \E r \in Reqs : Memory(r)
    \/ \E r \in Reqs : Complete(r)
    \/ Tick

NextRouting ==
    \/ \E r \in Reqs, inp \in RoutingInputs : Enter(r, inp)
    \/ \E r \in Reqs : Liveness(r)
    \/ \E r \in Reqs : Static(r)
    \/ \E r \in Reqs : NoRoute(r)
    \/ \E r \in Reqs : Complete(r)
    \/ \E r \in Reqs : Cancel(r)

Spec == Init /\ [][Next]_vars

SpecRouting == Init /\ [][NextRouting]_vars

SpecDemo == InitDemo /\ [][NextDemo]_vars

SpecHealth == InitHealth /\ [][NextHealth]_vars

(***************************************************************************)
(* Properties.                                                             *)
(***************************************************************************)
Returned(r) == pc[r] = "done"

Errored(r) == pc[r] \in {"raised", "failed"}

Leaked == {r \in Reqs : pc[r] \in {"raised", "failed", "cancelled"}}

(* C1: the step that completes a request, whether dispatch returns the     *)
(* response or an exception leaves it, takes the http_requests_active      *)
(* gauge down by exactly one, undoing the increment made on entry.         *)
C1_GaugeRestoredOnCompletion ==
    [][\A r \in Reqs :
          (InFlight(r) /\ pc'[r] \in {"done", "raised", "failed"})
              => active_requests' = active_requests - 1]_vars

(* C2: http_requests_total, summed over its series, equals the number of   *)
(* requests that have completed, with a response or with an exception:     *)
(* each was counted exactly once.                                          *)
C2_EveryRequestObservedOnce ==
    BagCardinality(request_count) =
        Cardinality({r \in Reqs : Returned(r) \/ Errored(r)})

(* C3: for every request whose handler raised before a response existed,   *)
(* the series of its method and endpoint with status "500" counts it.      *)
C3_RaisedRecordedAs500 ==
    \A r \in Reqs :
        pc[r] = "raised" =>
            value(request_count,
                  RequestLabels(scope[r].method, endpoint[r],
                                HTTP_500_INTERNAL_SERVER_ERROR))
            >= Cardinality({q \in Reqs : /\ pc[q] = "raised"
                                         /\ scope[q] = scope[r]})

(* C4: the step that cancels a suspended request takes the                 *)
(* http_requests_active gauge down by one.                                 *)
C4_GaugeRestoredOnCancel ==
    [][\A r \in Reqs :
          (InFlight(r) /\ pc'[r] = "cancelled")
              => active_requests' = active_requests - 1]_vars

(* C5: for every known route, method and resulting status, the             *)
(* http_requests_total series of (method, route template, status) equals   *)
(* the number of completed requests with that combination.                 *)
C5_CounterEqualsCompleted ==
    \A r \in Reqs :
        (FullMatches(scope[r]) # {} /\ (Returned(r) \/ Errored(r))) =>
            value(request_count,
                  RequestLabels(scope[r].method, ResolveEndpoint(scope[r]),
                                response[r].status_code))
            = Cardinality({q \in Reqs :
                             /\ Returned(q) \/ Errored(q)
                             /\ scope[q] = scope[r]
                             /\ response[q].status_code = response[r].status_code})

Scraped(r) ==
    /\ pc[r] = "awaiting"
    /\ pc'[r] = "responded"
    /\ scope[r].path = <<"/metrics">>

Alone(r) == \A q \in Reqs \ {r} : ~InFlight(q)

(* C6, as stated: a scrape handled while no other request is in flight     *)
(* reports http_requests_active = 0.                                       *)
C6_ScrapeReportsZero ==
    [][\A r \in Reqs :
          (Scraped(r) /\ Alone(r))
              => response'[r].body.http_requests_active = 0]_vars

(* C6, amended: a scrape handled while no other request is in flight       *)
(* reports http_requests_active = 1 (the scrape itself) plus the number of *)
(* earlier requests that an exception or a cancellation took out of        *)
(* dispatch.                                                               *)
C6_ScrapeReportsItselfAndLeaks ==
    [][\A r \in Reqs :
          (Scraped(r) /\ Alone(r))
              => response'[r].body.http_requests_active
                     = 1 + Cardinality(Leaked)]_vars

C6_Witness ==
    \E r \in Reqs :
        /\ pc[r] = "responded"
        /\ scope[r].path = <<"/metrics">>
        /\ \A q \in Reqs \ {r} : pc[q] = "new"
        /\ response[r].body.http_requests_active = 1

ReadyHandled(r) ==
    /\ pc[r] = "awaiting"
    /\ pc'[r] = "responded"
    /\ scope[r].path = <<"/health", "/ready">>

Unhealthy ==
    \/ ~check_memory.healthy
    \/ ~check_disk.healthy
    \/ ~check_configuration.healthy

(* C7: the status code of GET /health/ready is 503 when at least one of    *)
(* the memory, disk and configuration checks is unhealthy in the state the *)
(* call is made in, and 200 otherwise.                                     *)
C7_ReadyStatusFollowsChecks ==
    [][\A r \in Reqs :
          ReadyHandled(r) =>
              response'[r].status_code =
                  IF Unhealthy THEN HTTP_503_SERVICE_UNAVAILABLE
                  ELSE HTTP_200_OK]_vars

C7_Witness ==
    \E r, q \in Reqs :
        /\ r < q
        /\ scope[r].path = <<"/health", "/ready">>
        /\ scope[q].path = <<"/health", "/ready">>
        /\ pc[r] = "done"
        /\ pc[q] = "responded"
        /\ response[r].status_code = HTTP_503_SERVICE_UNAVAILABLE
        /\ response[q].status_code = HTTP_200_OK

ProbePaths == { <<"/health", "/live">>, <<"/health", "/startup">> }

HealthPaths == ProbePaths \cup { <<"/health", "/ready">> }

(* C10: the body of every response of /health/live, /health/ready and      *)
(* /health/startup has the fields status, timestamp and version; the       *)
(* liveness status is "healthy", the readiness status is "ready" and the   *)
(* readiness body has a checks field.                                      *)
C10_HealthBodyFields ==
    \A r \in Reqs :
        (scope[r].path \in HealthPaths /\ pc[r] = "responded") =>
            LET body == response[r].body
            IN  /\ {"status", "timestamp", "version"} \subseteq DOMAIN body
                /\ scope[r].path = <<"/health", "/live">>
                       => body.status = "healthy"
                /\ scope[r].path = <<"/health", "/ready">>
                       => body.status = "ready" /\ "checks" \in DOMAIN body

Answered(r) == pc[r] \in {"responded", "done", "raised", "failed"}

(* C11: every request to GET /api/info that has been answered, whether     *)
(* alone or while other requests are in flight, was answered with status   *)
(* 200.                                                                    *)
C11_InfoAlways200 ==
    \A r \in Reqs :
        (scope[r].path = <<"/api", "/info">> /\ Answered(r))
            => response[r].status_code = HTTP_200_OK

ErrorHandled(r) ==
    /\ scope[r].path = <<"/demo", "/error">>
    /\ pc[r] = "awaiting"
    /\ pc'[r] = "responded"

RateGiven(r, digits) ==
    /\ "rate" \in DOMAIN request[r].query
    /\ request[r].query["rate"] = digits

(* C12: whatever the random draw, the handler of /demo/error answers a     *)
(* request with rate=0 with 200, never 500, and a request with rate=100    *)
(* with 500; the tracker then passes that status on unchanged.             *)
C12_RateExtremesDeterministic ==
    [][\A r \in Reqs :
          /\ (ErrorHandled(r) /\ RateGiven(r, <<"0">>))
                 => response'[r].status_code = HTTP_200_OK
          /\ (ErrorHandled(r) /\ RateGiven(r, <<"1", "0", "0">>))
                 => response'[r].status_code = HTTP_500_INTERNAL_SERVER_ERROR
          /\ (scope[r].path = <<"/demo", "/error">>
                 /\ pc[r] = "responded" /\ pc'[r] = "done")
                 => response'[r].status_code = response[r].status_code]_vars

C12_Witness ==
    \E r, q \in Reqs :
        /\ scope[r].path = <<"/demo", "/error">>
        /\ scope[q].path = <<"/demo", "/error">>
        /\ pc[r] = "responded"
        /\ pc[q] = "responded"
        /\ RateGiven(r, <<"0">>)
        /\ RateGiven(q, <<"1", "0", "0">>)
        /\ response[r].status_code = HTTP_200_OK
        /\ response[q].status_code = HTTP_500_INTERNAL_SERVER_ERROR

SimulatedError == [error_type |-> "simulated_error"]

(* C13: a step of the /demo/error handler that answers 500 adds exactly    *)
(* one to app_errors_total{error_type="simulated_error"} and leaves every  *)
(* other series of that counter alone; a step that answers anything else   *)
(* leaves the counter as it was.                                           *)
C13_SimulatedErrorCountedOnce ==
    [][\A r \in Reqs :
          ErrorHandled(r) =>
              IF response'[r].status_code = HTTP_500_INTERNAL_SERVER_ERROR
              THEN /\ CopiesIn(SimulatedError, error_count')
                         = CopiesIn(SimulatedError, error_count) + 1
                   /\ \A l \in (BagToSet(error_count) \cup BagToSet(error_count'))
                                \ {SimulatedError} :
                          CopiesIn(l, error_count') = CopiesIn(l, error_count)
              ELSE /\ response'[r].status_code = HTTP_200_OK
                   /\ error_count' = error_count]_vars

C13_Witness ==
    \E r, q \in Reqs :
        /\ scope[r].path = <<"/demo", "/error">>
        /\ scope[q].path = <<"/demo", "/error">>
        /\ pc[r] = "done"
        /\ response[r].status_code = HTTP_500_INTERNAL_SERVER_ERROR
        /\ pc[q] = "responded"
        /\ response[q].status_code = HTTP_200_OK
        /\ CopiesIn(SimulatedError, error_count) = 1

DemoParameter(path) ==
    CASE path = <<"/demo", "/slow">>   -> [name |-> "delay", lo |-> 0, hi |-> 30]
      [] path = <<"/demo", "/error">>  -> [name |-> "rate", lo |-> 0, hi |-> 100]
      [] path = <<"/demo", "/cpu">>    -> [name |-> "duration", lo |-> 1, hi |-> 10]
      [] path = <<"/demo", "/memory">> -> [name |-> "size_mb", lo |-> 1, hi |-> 100]

DemoPaths ==
    { <<"/demo", "/slow">>, <<"/demo", "/error">>, <<"/demo", "/cpu">>,
      <<"/demo", "/memory">> }

InBounds(r) ==
    LET p == DemoParameter(scope[r].path)
        text == request[r].query[p.name]
    IN  /\ text # <<>>
        /\ \A i \in 1..Len(text) : IsDigit(text[i])
        /\ DigitsValue(text) \in p.lo..p.hi

Rejected(r) ==
    /\ scope[r].path \in DemoPaths
    /\ pc[r] = "awaiting"
    /\ DemoParameter(scope[r].path).name \in DOMAIN request[r].query
    /\ ~InBounds(r)

(* C14: a demo request whose parameter is out of bounds or does not parse  *)
(* is answered 422 by the step that handles it, and that step does nothing *)
(* of the handler body: the task is not put to sleep, the clock does not   *)
(* advance under a CPU loop, the body is the validation error and not a    *)
(* handler result, and business_operations_total and app_errors_total are  *)
(* as before.                                                              *)
C14_InvalidParameterRejected ==
    [][\A r \in Reqs :
          (Rejected(r) /\ pc'[r] # pc[r]) =>
              /\ pc'[r] = "responded"
              /\ response'[r].status_code = HTTP_422_UNPROCESSABLE
              /\ response'[r].body = ValidationError
              /\ now' = now
              /\ business_operations' = business_operations
              /\ error_count' = error_count]_vars

C14_Witness ==
    \E r, q \in Reqs :
        /\ scope[r].path = <<"/demo", "/slow">>
        /\ scope[q].path = <<"/demo", "/cpu">>
        /\ pc[r] = "responded"
        /\ pc[q] = "responded"
        /\ request[r].query = "delay" :> <<"3", "1">>
        /\ request[q].query = "duration" :> <<"0">>
        /\ response[r].status_code = HTTP_422_UNPROCESSABLE
        /\ response[q].status_code = HTTP_422_UNPROCESSABLE
        /\ settings.ENABLE_SLOW_ENDPOINT

SlowAccepted(r) ==
    /\ scope[r].path = <<"/demo", "/slow">>
    /\ "delay" \in DOMAIN request[r].query => InBounds(r)

(* C15: with ENABLE_SLOW_ENDPOINT false, the step that handles a           *)
(* /demo/slow request with a valid delay answers 404 at once: the task is  *)
(* not put to sleep and business_operations_total is not incremented,      *)
(* neither for "started" nor for "completed".                              *)
C15_DisabledSlowIs404 ==
    [][\A r \in Reqs :
          (/\ pc[r] = "awaiting"
           /\ SlowAccepted(r)
           /\ ~settings.ENABLE_SLOW_ENDPOINT
           /\ pc'[r] # pc[r]) =>
              /\ pc'[r] = "responded"
              /\ response'[r].status_code = HTTP_404_NOT_FOUND
              /\ now' = now
              /\ business_operations' = business_operations]_vars

C15_Witness ==
    \E r \in Reqs :
        /\ scope[r].path = <<"/demo", "/slow">>
        /\ pc[r] = "responded"
        /\ request[r].query = "delay" :> <<"1">>
        /\ ~settings.ENABLE_SLOW_ENDPOINT
        /\ response[r].status_code = HTTP_404_NOT_FOUND
        /\ business_operations = EmptyBag

SlowAnswered(r) ==
    /\ scope[r].path = <<"/demo", "/slow">>
    /\ pc[r] = "responded"
    /\ response[r].status_code = HTTP_200_OK

(* C16: when the handler of /demo/slow has answered 200, at least as many  *)
(* seconds as the delay have passed since the request entered the          *)
(* middleware, and the delay in the body is the delay the request gave,    *)
(* or SLOW_ENDPOINT_DELAY when it gave none.                               *)
C16_SlowWaitsForDelay ==
    \A r \in Reqs :
        SlowAnswered(r) =>
            LET d == IF "delay" \in DOMAIN request[r].query
                     THEN DigitsValue(request[r].query["delay"])
                     ELSE settings.SLOW_ENDPOINT_DELAY
            IN  /\ settings.ENABLE_SLOW_ENDPOINT
                /\ response[r].body.delay = d
                /\ now >= start_time[r] + d

C16_Witness ==
    \E r, q \in Reqs :
        /\ SlowAnswered(r)
        /\ SlowAnswered(q)
        /\ request[r].query = "delay" :> <<"1">>
        /\ request[q].query = <<>>
        /\ response[r].body.delay = 1
        /\ response[q].body.delay = settings.SLOW_ENDPOINT_DELAY
        /\ start_time[r] > 0

Unmatched(r) == pc[r] # "new" /\ FullMatches(scope[r]) = {}

(* C17: every request that no route matches and that has completed with    *)
(* an answer is counted in http_requests_total under its method, the       *)
(* endpoint "unknown" and the status 404.                                  *)
C17_UnmatchedCountedAsUnknown ==
    \A r \in Reqs :
        (Unmatched(r) /\ (Returned(r) \/ Errored(r))) =>
            value(request_count,
                  RequestLabels(scope[r].method, UNKNOWN, HTTP_404_NOT_FOUND))
            = Cardinality({q \in Reqs :
                             /\ Unmatched(q)
                             /\ Returned(q) \/ Errored(q)
                             /\ scope[q].method = scope[r].method})

Templates == {routes[i].path : i \in 1..Len(routes)}

EndpointLabels ==
    {l.endpoint : l \in BagToSet(request_count) \cup BagToSet(request_duration)
                        \cup BagToSet(request_size) \cup BagToSet(response_size)}

(* C18: every endpoint label in the request counter and the three request  *)
(* histograms is the path template of a route of the table or "unknown";   *)
(* the path of a request that matched no route is never a label; so there  *)
(* are at most as many endpoint labels as routes, plus one.                *)
C18_EndpointLabelsBounded ==
    /\ EndpointLabels \subseteq Templates \cup {UNKNOWN}
    /\ \A r \in Reqs : Unmatched(r) => scope[r].path \notin EndpointLabels
    /\ Cardinality(EndpointLabels) <= Len(routes) + 1

C18_Witness ==
    \E r, q \in Reqs :
        /\ Unmatched(r)
        /\ Returned(r)
        /\ Returned(q)
        /\ scope[q].path = <<"/demo", "/slow">>
        /\ EndpointLabels = {UNKNOWN, <<"/demo", "/slow">>}

Unparseable(headers) ==
    /\ "content-length" \in DOMAIN headers
    /\ \E i \in 1..Len(headers["content-length"]) :
           ~IsDigit(headers["content-length"][i])

(* C19: the step that completes a request whose content-length header is   *)
(* absent or is not an integer returns the response, counts the request    *)
(* in http_requests_total once and takes the gauge down by one.            *)
C19_MissingOrBadLengthIsZero ==
    [][\A r \in Reqs :
          (/\ pc[r] = "responded"
           /\ pc'[r] \in {"done", "failed"}
           /\ \/ "content-length" \notin DOMAIN request[r].headers
              \/ Unparseable(request[r].headers)) =>
              /\ pc'[r] = "done"
              /\ value(request_count',
                       RequestLabels(scope[r].method, endpoint[r],
                                     response[r].status_code))
                 = value(request_count,
                         RequestLabels(scope[r].method, endpoint[r],
                                       response[r].status_code)) + 1
              /\ active_requests' = active_requests - 1]_vars

(* C20: when two requests with the same method and route are in flight at  *)
(* once, the step that completes one of them adds exactly one to the       *)
(* http_requests_total series of its method, route and answered status.    *)
C20_ConcurrentCompletionsCounted ==
    [][\A r, q \in Reqs :
          (/\ r # q
           /\ InFlight(r)
           /\ InFlight(q)
           /\ scope[q].method = scope[r].method
           /\ endpoint[q] = endpoint[r]
           /\ pc'[r] \in {"done", "raised", "failed"}) =>
              value(request_count',
                    RequestLabels(scope[r].method, endpoint[r],
                                  response'[r].status_code))
              = value(request_count,
                      RequestLabels(scope[r].method, endpoint[r],
                                    response'[r].status_code)) + 1]_vars

Sleeping(r) == pc[r] = "sleeping"

NextToArrive(q) == pc[q] = "new" /\ \A p \in Reqs : p < q => pc[p] # "new"

(* C21: the step of the /demo/slow handler that starts the sleep only      *)
(* suspends its own task: it takes no time and leaves the task sleeping;   *)
(* and while a task sleeps, every other request can take its next step:    *)
(* the next request can enter, a request waiting for a handler that does   *)
(* not use the clock can be handled, and a handled request can be recorded *)
(* and completed.                                                          *)
C21_SleepDoesNotBlock ==
    [][/\ \A r \in Reqs :
             (/\ pc[r] = "awaiting"
              /\ SlowAccepted(r)
              /\ settings.ENABLE_SLOW_ENDPOINT
              /\ pc'[r] # pc[r]) => (Sleeping(r)' /\ now' = now)
       /\ \A r, q \in Reqs :
             (r # q /\ Sleeping(r)) =>
                 /\ NextToArrive(q) => ENABLED (\E inp \in DemoInputs : Enter(q, inp))
                 /\ (pc[q] = "awaiting" /\ scope[q].path = <<"/demo", "/error">>)
                        => ENABLED ErrorEndpoint(q)
                 /\ (pc[q] = "awaiting" /\ scope[q].path = <<"/demo", "/memory">>)
                        => ENABLED Memory(q)
                 /\ pc[q] = "responded" => ENABLED Complete(q)]_vars

C21_Witness ==
    \E r, q \in Reqs :
        /\ r < q
        /\ Sleeping(r)
        /\ start_time[r] = now
        /\ Returned(q)
        /\ scope[q].path = <<"/demo", "/memory">>
        /\ value(request_count,
                 RequestLabels("GET", <<"/demo", "/memory">>, HTTP_200_OK)) = 1

(* C22: in every reachable state, whatever mix of requests returned,       *)
(* raised or were cancelled, the http_requests_active gauge is at least    *)
(* the number of requests inside dispatch, hence never negative.           *)
C22_GaugeNeverNegative ==
    /\ active_requests >= Cardinality({r \in Reqs : InFlight(r)})
    /\ active_requests >= 0

C22_Witness ==
    \E r, q \in Reqs :
        /\ Returned(r)
        /\ pc[q] \in {"raised", "cancelled"}
        /\ active_requests = 1

(* C23: in the answer of /health/ready the memory entry is ok iff the      *)
(* memory utilisation at the time of the call is strictly below 90         *)
(* percent, and the disk entry is ok iff the utilisation of the root       *)
(* volume is strictly below 90 percent: 89 is healthy, 90 is not.          *)
C23_ThresholdIsStrict ==
    [][\A r \in Reqs :
          ReadyHandled(r) =>
              LET entry(i) == response'[r].body.components[i]
              IN  /\ (entry(1).status = HealthStatusOK) <=> (memory_percent < 90)
                  /\ (entry(2).status = HealthStatusOK) <=> (disk_percent < 90)
                  /\ memory_percent = 90 => entry(1).status = HealthStatusERROR
                  /\ memory_percent = 89 => entry(1).status = HealthStatusOK
                  /\ disk_percent = 90 => entry(2).status = HealthStatusERROR
                  /\ disk_percent = 89 => entry(2).status = HealthStatusOK]_vars

C23_Witness ==
    \E r, q \in Reqs :
        /\ scope[r].path = <<"/health", "/ready">>
        /\ scope[q].path = <<"/health", "/ready">>
        /\ pc[r] = "done"
        /\ pc[q] = "responded"
        /\ memory_percent = 90
        /\ disk_percent = 89
        /\ response[q].body.components[1].status = HealthStatusERROR
        /\ response[q].body.components[2].status = HealthStatusOK
        /\ response[q].body.components[1].details
               = <<"Memory usage: ">> \o PyStr(90) \o <<"%">>

Required == <<"APP_NAME", "APP_ENV", "VERSION">>

Empty(var) == settings[var] = ""

(* C24: in the answer of /health/ready the config entry is ok iff          *)
(* APP_NAME, APP_ENV and VERSION are all non-empty; when one of them is    *)
(* empty the entry is in error, its message lists exactly the empty keys   *)
(* and the status code is 503.                                             *)
C24_ConfigurationCheck ==
    [][\A r \in Reqs :
          ReadyHandled(r) =>
              LET config == response'[r].body.components[3]
                  complete == \A i \in 1..3 : ~Empty(Required[i])
              IN  /\ (config.status = HealthStatusOK) <=> complete
                  /\ complete => config.details = <<"Configuration OK">>
                  /\ ~complete =>
                        /\ config.status = HealthStatusERROR
                        /\ config.details
                               = <<"Missing: ">> \o SelectSeq(Required, Empty)
                        /\ response'[r].status_code
                               = HTTP_503_SERVICE_UNAVAILABLE]_vars

C24_Witness ==
    \E r \in Reqs :
        /\ pc[r] = "responded"
        /\ scope[r].path = <<"/health", "/ready">>
        /\ response[r].status_code = HTTP_503_SERVICE_UNAVAILABLE
        /\ response[r].body.components[1].status = HealthStatusOK
        /\ response[r].body.components[2].status = HealthStatusOK
        /\ response[r].body.components[3].details
               = <<"Missing: ", "APP_NAME", "VERSION">>

Started == [operation |-> "slow_request", status |-> "started"]

Completed == [operation |-> "slow_request", status |-> "completed"]

SlowInFlight(r) == scope[r].path = <<"/demo", "/slow">> /\ InFlight(r)

(* C25: in every reachable state the "completed" count of                  *)
(* business_operations_total{operation="slow_request"} is at most the      *)
(* "started" count, the difference is the number of slow requests          *)
(* suspended in their sleep, and the two are equal when no slow request    *)
(* is in flight.                                                           *)
C25_StartedMinusCompletedIsSleeping ==
    /\ value(business_operations, Completed) <= value(business_operations, Started)
    /\ value(business_operations, Started) - value(business_operations, Completed)
           = Cardinality({r \in Reqs : Sleeping(r)})
    /\ (\A r \in Reqs : ~SlowInFlight(r))
           => value(business_operations, Completed)
                  = value(business_operations, Started)

Methods == {"GET", "HEAD", "POST", "PUT", "PATCH", "DELETE", "OPTIONS"}

ErrorEndpoint500(method) ==
    RequestLabels(method, <<"/demo", "/error">>, HTTP_500_INTERNAL_SERVER_ERROR)

RECURSIVE Sum(_, _)
Sum(f, S) ==
    IF S = {} THEN 0
    ELSE LET x == CHOOSE y \in S : TRUE IN f[x] + Sum(f, S \ {x})

(* C26: whenever no request is in flight,                                  *)
(* app_errors_total{error_type="simulated_error"} equals the sum over the  *)
(* methods of http_requests_total{endpoint="/demo/error", status="500"}.   *)
C26_SimulatedErrorsMatchTracker ==
    (\A r \in Reqs : ~InFlight(r)) =>
        value(error_count, SimulatedError)
        = Sum([m \in Methods |-> value(request_count, ErrorEndpoint500(m))],
              Methods)

SeriesOf(method, ep) ==
    {l \in BagToSet(request_count) : l.method = method /\ l.endpoint = ep}

Pairs ==
    {HistogramLabels(l.method, l.endpoint) :
        l \in BagToSet(request_count) \cup BagToSet(request_duration)
               \cup BagToSet(request_size) \cup BagToSet(response_size)}

(* C27: for every (method, endpoint) pair that appears in any of the four  *)
(* request series, the observation counts of the duration, request size    *)
(* and response size histograms are equal, and equal to the sum of         *)
(* http_requests_total over the status values of that pair.                *)
C27_FourSeriesMoveTogether ==
    \A p \in Pairs :
        /\ value(request_duration, p) = value(request_size, p)
        /\ value(request_size, p) = value(response_size, p)
        /\ value(request_duration, p)
              = Sum([l \in SeriesOf(p.method, p.endpoint)
                        |-> value(request_count, l)],
                    SeriesOf(p.method, p.endpoint))

C27_Witness ==
    /\ \A r \in Reqs : Returned(r)
    /\ value(request_count, ErrorEndpoint500("GET")) = 1
    /\ value(request_count,
             RequestLabels("GET", <<"/demo", "/error">>, HTTP_200_OK)) = 1
    /\ value(response_size, HistogramLabels("GET", <<"/demo", "/error">>)) = 2

OverlappingTables ==
    { << Mount(<<"/demo">>), Route(<<"/demo", "/slow">>, Get) >>,
      << Route(<<"/demo", "/slow">>, Get), Mount(<<"/demo">>) >>,
      << Route(<<"/demo", "/slow">>, {"POST"}), Mount(<<"/demo">>),
         Route(<<"/demo", "/slow">>, Get) >> }

OverlappingScopes ==
    { [method |-> m, path |-> p] :
        m \in {"GET", "POST"},
        p \in { <<"/demo", "/slow">>, <<"/demo", "/cpu">>, <<"/slow">> } }

Labelled(app_routes, sc, label) ==
    LET full(i) == matches(app_routes[i], sc) = "FULL"
    IN  IF \E i \in 1..Len(app_routes) : full(i)
        THEN \E i \in 1..Len(app_routes) :
                /\ full(i)
                /\ \A j \in 1..(i - 1) : ~full(j)
                /\ label = app_routes[i].path
        ELSE label = UNKNOWN

PartialOnly(sc) ==
    /\ \E i \in 1..Len(routes) : matches(routes[i], sc) = "PARTIAL"
    /\ \A i \in 1..Len(routes) : matches(routes[i], sc) # "FULL"

(* C28: the endpoint label of every request is the template of the first   *)
(* route of the table that matches it fully, and "unknown" when none       *)
(* does; a request that matches a route in path but not in method is       *)
(* answered 405 and labelled "unknown", and it is counted under that       *)
(* label; over tables in which several routes match the same request, the  *)
(* first in table order supplies the label.                                *)
C28_LabelIsFirstFullMatch ==
    /\ \A r \in Reqs :
          pc[r] # "new" =>
              /\ Labelled(routes, scope[r], endpoint[r])
              /\ PartialOnly(scope[r]) => endpoint[r] = UNKNOWN
              /\ (PartialOnly(scope[r]) /\ pc[r] = "responded")
                     => response[r].status_code = 405
              /\ (PartialOnly(scope[r]) /\ Returned(r))
                     => value(request_count,
                              RequestLabels(scope[r].method, UNKNOWN, 405)) >= 1
    /\ \A app_routes \in OverlappingTables, sc \in OverlappingScopes :
          Labelled(app_routes, sc, endpoint_of(app_routes, sc))

C28_Witness ==
    \E r, q \in Reqs :
        /\ scope[r] = [method |-> "POST", path |-> <<"/health", "/live">>]
        /\ scope[q] = [method |-> "POST", path |-> <<"/static", "/app.js">>]
        /\ Returned(r)
        /\ Returned(q)
        /\ value(request_count, RequestLabels("POST", UNKNOWN, 405)) = 1
        /\ value(request_count, RequestLabels("POST", <<"/static">>, 405)) = 1

SlowHandled(r) ==
    /\ scope[r].path = <<"/demo", "/slow">>
    /\ pc[r] = "awaiting"
    /\ pc'[r] # pc[r]

(* C29: with ENABLE_SLOW_ENDPOINT false, the step that handles a           *)
(* /demo/slow request answers the validation error 422 when the delay is   *)
(* out of range or does not parse, and 404 when the delay is valid or      *)
(* absent; in both cases business_operations_total is left as it was.      *)
C29_ValidationBeforeFlag ==
    [][\A r \in Reqs :
          (SlowHandled(r) /\ ~settings.ENABLE_SLOW_ENDPOINT) =>
              /\ pc'[r] = "responded"
              /\ business_operations' = business_operations
              /\ IF SlowAccepted(r)
                 THEN response'[r].status_code = HTTP_404_NOT_FOUND
                 ELSE /\ response'[r].status_code = HTTP_422_UNPROCESSABLE
                      /\ response'[r].body = ValidationError]_vars

C29_Witness ==
    \E r, q \in Reqs :
        /\ ~settings.ENABLE_SLOW_ENDPOINT
        /\ scope[r].path = <<"/demo", "/slow">>
        /\ scope[q].path = <<"/demo", "/slow">>
        /\ pc[r] = "responded"
        /\ pc[q] = "responded"
        /\ request[r].query = "delay" :> <<"3", "1">>
        /\ request[q].query = <<>>
        /\ response[r].status_code = HTTP_422_UNPROCESSABLE
        /\ response[q].status_code = HTTP_404_NOT_FOUND
        /\ business_operations = EmptyBag

====
